---------------------------- MODULE Spec2Model ----------------------------
(***************************************************************************)
(* Model of the MT5 risk dashboard (src/mt5_risk_dashboard_live_price.py,  *)
(* src/symbol_loader.py, src/streamlit_app.py).                            *)
(*                                                                         *)
(* Two specifications share the module:                                    *)
(*   Spec          one run of the dashboard script from load_symbols() to  *)
(*                 the "Final Calculations" block (lines 38-115);          *)
(*   SpecBacktest  one press of "Fetch, Filter & Backtest" (lines 177-229).*)
(*                                                                         *)
(* Numbers.  Python floats are modelled as exact rationals <<n, d>> in     *)
(* lowest terms (d > 0); <<0, 0>> stands for "not assigned yet".  Backtest *)
(* prices are integers in ticks of 0.0001, so 0.0020 is 20 ticks and       *)
(* 0.0030 is 30 ticks; a moving average is the rational <<sum, window>>.   *)
(***************************************************************************)
EXTENDS Integers, Sequences, FiniteSets, TLC

VARIABLES
    \* ---- dashboard script (Spec) ----
    pc,                 \* position in the script
    error,              \* "" or the name of the exception that ended the run
    request,            \* outcome of requests.get(...) and response.json()
    api_list,           \* list the API would decode to
    config_file,        \* [exists, list]: symbols_config.json
    symbols,            \* [none, list]: value bound to `symbols`
    selected_symbol,
    pip_precision,
    is_buy,
    account_size, lot_size, risk_percent, entry_price, rr_choice,
    risk_dollar, sl_pips, tp_pips, sl_price, tp_price,
    stop_loss_price, take_profit_price,
    risk_amount, reward_amount, rr_ratio, suggested_lot_size,
    \* ---- backtest (SpecBacktest) ----
    bpc,                \* position in the backtest block
    raw,                \* what yf.download returned (rows with Datetime)
    session_filter,
    df,                 \* the working data frame
    i,                  \* loop index of `for i in range(1, len(df))` (0-based)
    trades,             \* list of trade dicts
    balance,
    trig                \* history: Datetime of the bar that triggered each trade

dashVars == <<pc, error, request, api_list, config_file, symbols, selected_symbol,
              pip_precision, is_buy, account_size, lot_size, risk_percent,
              entry_price, rr_choice, risk_dollar, sl_pips, tp_pips, sl_price,
              tp_price, stop_loss_price, take_profit_price, risk_amount,
              reward_amount, rr_ratio, suggested_lot_size>>

btVars == <<bpc, raw, session_filter, df, i, trades, balance, trig>>

vars == <<dashVars, btVars>>

---------------------------------------------------------------------------
(* Exact rational arithmetic standing for Python float arithmetic.         *)

Abs(x) == IF x < 0 THEN -x ELSE x

RECURSIVE GCD(_, _)
GCD(a, b) == IF b = 0 THEN a ELSE GCD(b, a % b)

Norm(n, d) ==
    LET s == IF d < 0 THEN -1 ELSE 1
        g == GCD(Abs(n), Abs(d))
    IN  <<(s * n) \div g, (s * d) \div g>>

R(n, d) == Norm(n, d)
NoneR == <<0, 0>>
Zero == <<0, 1>>

RAdd(x, y) == Norm(x[1] * y[2] + y[1] * x[2], x[2] * y[2])
RSub(x, y) == Norm(x[1] * y[2] - y[1] * x[2], x[2] * y[2])
RMul(x, y) == Norm(x[1] * y[1], x[2] * y[2])
RDiv(x, y) == Norm(x[1] * y[2], x[2] * y[1])      \* y # Zero
RAbs(x) == <<Abs(x[1]), x[2]>>
RLt(x, y) == x[1] * y[2] < y[1] * x[2]
IsZero(x) == x[1] = 0

---------------------------------------------------------------------------
(* Backtest block, lines 172-229.                                          *)

InitialBalance == 100000
MAFast == 9
MASlow == 21
SLDistance == 20
TPDistance == 30
WinProfit == 1500
LossProfit == -1000
LondonOpen == 7
LondonClose == 16
NewYorkOpen == 13
NewYorkClose == 21

MaxTail == 4

\* Closing prices of the generated bars, in ticks (1.1000, 1.0995, 1.1005).
Closes == [Mid |-> 11000, Lo |-> 10995, Hi |-> 11005]
Mid == Closes.Mid
Lo == Closes.Lo
Hi == Closes.Hi

\* A bar before its timestamp is fixed: hour of day, close, high, low.
Bar(h, c, up, down) == [hour |-> h, Close |-> c, High |-> c + up, Low |-> c - down]

BarKinds ==
    { Bar(13, Lo, 5, SLDistance),       \* both sessions, below the average
      Bar(16, Hi, TPDistance, 5),       \* both sessions, high reaches tp
      Bar(7, Hi, 5, SLDistance),        \* London only, low reaches sl
      Bar(21, Lo, 5, 5),                \* New York only
      Bar(6, Hi, 5, 5),                 \* neither session, reaches neither level
      Bar(14, Mid, 5, 5) }              \* equal to a flat average

RECURSIVE SeqsUpTo(_, _)
SeqsUpTo(S, n) ==
    IF n = 0 THEN {<<>>}
    ELSE LET shorter == SeqsUpTo(S, n - 1)
         IN  shorter \cup {Append(s, x) : s \in {t \in shorter : Len(t) = n - 1}, x \in S}

\* Warm-up prefixes: none, or MASlow - 1 flat bars inside or outside the sessions.
Prefixes ==
    { <<>> } \cup
    { [k \in 1..(MASlow - 1) |-> Bar(h, Mid, 5, 5)] : h \in {14, 22} }

\* Bars are stamped one per day, so timestamps strictly increase.
Stamp(bars) ==
    [k \in 1..Len(bars) |->
        [Datetime |-> 24 * k + bars[k].hour, Close |-> bars[k].Close,
         High |-> bars[k].High, Low |-> bars[k].Low]]

RawInputs == { Stamp(p \o t) : p \in Prefixes, t \in SeqsUpTo(BarKinds, MaxTail) }

SessionFilters == {"All", "London", "New York"}

NaN == [nan |-> TRUE, num |-> 0, den |-> 1]
Mean(s, w) == [nan |-> FALSE, num |-> s, den |-> w]

\* line 186: df["Hour"] = pd.to_datetime(df["Datetime"]).dt.hour
HourOf(datetime) == datetime % 24

WithHour(rows) ==
    [k \in 1..Len(rows) |->
        [Datetime |-> rows[k].Datetime, Close |-> rows[k].Close, High |-> rows[k].High,
         Low |-> rows[k].Low, Hour |-> HourOf(rows[k].Datetime)]]

\* Mutant: upper end excluded
BetweenHalfOpen(x, lo, hi) == lo <= x /\ x < hi

\* Series.between(lo, hi): inclusive at both ends
Between(x, lo, hi) == lo <= x /\ x <= hi

\* lines 187-190
FilterSessions(rows, choice) ==
    IF choice = "London"
    THEN SelectSeq(rows, LAMBDA r : Between(r.Hour, LondonOpen, LondonClose))
    ELSE IF choice = "New York"
    THEN SelectSeq(rows, LAMBDA r : Between(r.Hour, NewYorkOpen, NewYorkClose))
    ELSE rows

RECURSIVE SumClose(_, _, _)
SumClose(rows, from, to) ==
    IF from > to THEN 0 ELSE rows[to].Close + SumClose(rows, from, to - 1)

\* Series.rolling(w).mean(): NaN until w rows are available
RollingMean(rows, w, k) ==
    IF k < w THEN NaN ELSE Mean(SumClose(rows, k - w + 1, k), w)

\* lines 198-199
WithAverages(rows) ==
    [k \in 1..Len(rows) |->
        [Datetime |-> rows[k].Datetime, Close |-> rows[k].Close, High |-> rows[k].High,
         Low |-> rows[k].Low, Hour |-> rows[k].Hour,
         MA9 |-> RollingMean(rows, MAFast, k),
         MA21 |-> RollingMean(rows, MASlow, k)]]

\* Mutant: only the 9-period average decides which rows are dropped
DropNaFastOnly(rows) == SelectSeq(rows, LAMBDA r : ~r.MA9.nan)

\* line 208: df.dropna(inplace=True)
DropNa(rows) == SelectSeq(rows, LAMBDA r : ~r.MA9.nan /\ ~r.MA21.nan)

\* Close < MA and Close > MA on exact values
Below(close, ma) == close * ma.den < ma.num
Above(close, ma) == close * ma.den > ma.num

\* Mutant: a previous close equal to its average counts as below
SignalNonStrict(prev, curr) ==
    prev.Close * prev.MA21.den <= prev.MA21.num /\ Above(curr.Close, curr.MA21)

\* line 214
Signal(prev, curr) == Below(prev.Close, prev.MA21) /\ Above(curr.Close, curr.MA21)

\* lines 215-219: the profit of the trade entered at `curr`
Profit(curr) ==
    LET entry == curr.Close
        tp == entry + TPDistance
        result == tp - entry
    IN  IF result > 0 THEN WinProfit ELSE LossProfit

\* Mutant: the profit is added to the starting balance, not the running one
NewBalanceFromStart(bal, profit) == InitialBalance + profit

\* line 220: balance += profit
NewBalance(bal, profit) == bal + profit

\* line 221: the dict appended to trades
TradeFor(curr, profit, bal) ==
    LET entry == curr.Close
        sl == entry - SLDistance
        tp == entry + TPDistance
    IN  [entry |-> entry, exit |-> IF profit > 0 THEN tp ELSE sl,
         result |-> profit, balance |-> bal]

BtInit ==
    /\ bpc = "button"
    /\ raw \in RawInputs
    /\ session_filter \in SessionFilters
    /\ df = <<>>
    /\ i = 0
    /\ trades = <<>>
    /\ balance = 0
    /\ trig = <<>>

\* lines 177-183
Download ==
    /\ UNCHANGED dashVars
    /\ bpc = "button"
    /\ IF raw = <<>>
       THEN /\ bpc' = "no_data"
            /\ df' = df
       ELSE /\ bpc' = "filter"
            /\ df' = raw
    /\ UNCHANGED <<raw, session_filter, i, trades, balance, trig>>

\* lines 186-190
Filter ==
    /\ UNCHANGED dashVars
    /\ bpc = "filter"
    /\ df' = FilterSessions(WithHour(df), session_filter)
    /\ bpc' = "chart"
    /\ UNCHANGED <<raw, session_filter, i, trades, balance, trig>>

\* lines 198-210
Chart ==
    /\ UNCHANGED dashVars
    /\ bpc = "chart"
    /\ df' = DropNa(WithAverages(df))
    /\ trades' = <<>>
    /\ balance' = InitialBalance
    /\ i' = 1
    /\ bpc' = "loop"
    /\ UNCHANGED <<raw, session_filter, trig>>

\* lines 211-221: one iteration
LoopStep ==
    /\ UNCHANGED dashVars
    /\ bpc = "loop"
    /\ i < Len(df)
    /\ LET prev == df[i]
           curr == df[i + 1]
       IN  IF Signal(prev, curr)
           THEN /\ balance' = NewBalance(balance, Profit(curr))
                /\ trades' = Append(trades, TradeFor(curr, Profit(curr), balance'))
                /\ trig' = Append(trig, curr.Datetime)
           ELSE UNCHANGED <<trades, balance, trig>>
    /\ i' = i + 1
    /\ UNCHANGED <<bpc, raw, session_filter, df>>

\* lines 223-229
Report ==
    /\ UNCHANGED dashVars
    /\ bpc = "loop"
    /\ i >= Len(df)
    /\ bpc' = IF trades # <<>> THEN "results" ELSE "no_trades"
    /\ UNCHANGED <<raw, session_filter, df, i, trades, balance, trig>>



---------------------------------------------------------------------------
(* Dashboard script, lines 13-115.                                         *)

Sym(name, pip) == [symbol |-> name, pip_precision |-> pip]

\* Lists the symbols API may decode to.
ApiLists ==
    { <<Sym("BTCUSD", R(1, 100)), Sym("EURUSD", R(1, 10000))>>,
      <<Sym("BTCUSD", R(0, 1)), Sym("XAUUSD", R(-1, 10))>>,
      <<Sym("EURUSD", R(1, 10000))>> }

\* symbols_config.json: present with a list, or absent.
ConfigFiles ==
    { [exists |-> TRUE, list |-> <<Sym("BTCUSD", R(1, 1)), Sym("EURUSD", R(1, 10000)),
                                   Sym("USOIL", R(1, 100))>>],
      [exists |-> FALSE, list |-> <<>>] }

\* requests.get: raises (timeout, refused), or answers with a status; json() may raise.
Requests ==
    { [raises |-> TRUE, status_code |-> 0, json_raises |-> FALSE],
      [raises |-> FALSE, status_code |-> 200, json_raises |-> FALSE],
      [raises |-> FALSE, status_code |-> 200, json_raises |-> TRUE],
      [raises |-> FALSE, status_code |-> 404, json_raises |-> FALSE],
      [raises |-> FALSE, status_code |-> 500, json_raises |-> FALSE] }

AccountSizes == { R(100, 1), R(10000, 1) }          \* min_value=100.0
LotSizes == { R(1, 100), R(1, 10) }                 \* min_value=0.01
RiskPercents == { R(1, 1), R(10, 1) }               \* 0.1 .. 10.0
EntryPrices == { R(114, 100), R(2, 1) }
RRChoices == { "1:1", "1:2", "1:3" }
\* Manual stop and take-profit prices, as offsets from the entry price.
ManualOffsets == { R(-1, 100), R(0, 1), R(1, 100) }

SomeList(l) == [none |-> FALSE, list |-> l]
None == [none |-> TRUE, list |-> <<>>]

\* lines 38-45: what load_symbols() does for a request outcome.
\* "return" with a list, "return" with None (falling off the end), or "raise".
load_symbols(req, api, file) ==
    IF ~req.raises /\ ~(req.status_code = 200 /\ req.json_raises)
    THEN IF req.status_code = 200
         THEN [how |-> "return", value |-> SomeList(api), exc |-> ""]
         ELSE [how |-> "return", value |-> None, exc |-> ""]
    ELSE IF file.exists
         THEN [how |-> "return", value |-> SomeList(file.list), exc |-> ""]
         ELSE [how |-> "raise", value |-> None, exc |-> "FileNotFoundError"]

\* lines 69-72
ExtraSymbols == <<Sym("USOIL", R(1, 10)), Sym("NZDCAD", R(1, 10000))>>

\* line 73
SymbolNames(list) == { list[k].symbol : k \in 1..Len(list) }

\* line 76: first record of the selected symbol, else 0.0001
PipPrecisionOf(list, name) ==
    IF \E k \in 1..Len(list) : list[k].symbol = name
    THEN list[CHOOSE k \in 1..Len(list) :
                /\ list[k].symbol = name
                /\ \A j \in 1..(k - 1) : list[j].symbol # name].pip_precision
    ELSE R(1, 10000)

\* line 97
RRValue(choice) ==
    IF choice = "1:1" THEN R(1, 1) ELSE IF choice = "1:2" THEN R(2, 1) ELSE R(3, 1)

\* line 100
RiskDollar(account, percent) == RMul(account, RDiv(percent, R(100, 1)))
\* line 101
DefaultSlPips(dollar, lot) == RDiv(dollar, RMul(lot, R(10, 1)))
\* line 102
DefaultTpPips(slp, rr) == RMul(slp, rr)
\* Mutant: the direction is ignored
DefaultSlPriceBuyOnly(buy, entry, slp, pip) == RSub(entry, RMul(slp, pip))

\* line 103
DefaultSlPrice(buy, entry, slp, pip) ==
    IF buy THEN RSub(entry, RMul(slp, pip)) ELSE RAdd(entry, RMul(slp, pip))
\* line 104
DefaultTpPrice(buy, entry, tpp, pip) ==
    IF buy THEN RAdd(entry, RMul(tpp, pip)) ELSE RSub(entry, RMul(tpp, pip))

\* Mutant: signed, direction-aware distance instead of the absolute value
FinalSlPipsSigned(entry, stop, pip) ==
    IF is_buy THEN RDiv(RSub(entry, stop), pip) ELSE RDiv(RSub(stop, entry), pip)

\* line 110 (pip # 0)
FinalSlPips(entry, stop, pip) == RDiv(RAbs(RSub(entry, stop)), pip)
\* line 111 (pip # 0)
FinalTpPips(entry, take, pip) == RDiv(RAbs(RSub(take, entry)), pip)
\* lines 112-113
Amount(pips, lot) == RMul(RMul(pips, lot), R(10, 1))
\* line 114
RRRatio(reward, risk) == IF ~IsZero(risk) THEN RDiv(reward, risk) ELSE Zero
\* line 115
SuggestedLotSize(account, percent, slp) ==
    IF ~IsZero(slp)
    THEN RDiv(RDiv(RMul(account, percent), R(100, 1)), RMul(slp, R(10, 1)))
    ELSE Zero

DashInit ==
    /\ pc = "load"
    /\ error = ""
    /\ request \in Requests
    /\ api_list \in ApiLists
    /\ config_file \in ConfigFiles
    /\ symbols = None
    /\ selected_symbol = "BTCUSD"            \* line 16
    /\ pip_precision = NoneR
    /\ is_buy = TRUE
    /\ account_size = R(10000, 1)            \* lines 18-22
    /\ lot_size = R(1, 10)
    /\ risk_percent = R(1, 1)
    /\ entry_price = R(114, 100)
    /\ rr_choice = "1:2"
    /\ risk_dollar = NoneR /\ sl_pips = NoneR /\ tp_pips = NoneR
    /\ sl_price = NoneR /\ tp_price = NoneR
    /\ stop_loss_price = NoneR /\ take_profit_price = NoneR
    /\ risk_amount = NoneR /\ reward_amount = NoneR
    /\ rr_ratio = NoneR /\ suggested_lot_size = NoneR

inputVars == <<is_buy, account_size, lot_size, risk_percent, entry_price, rr_choice>>
defaultVars == <<risk_dollar, sl_price, tp_price>>
overrideVars == <<stop_loss_price, take_profit_price>>
finalVars == <<risk_amount, reward_amount, rr_ratio, suggested_lot_size>>
sourceVars == <<request, api_list, config_file>>

\* line 68: symbols = load_symbols()
LoadSymbols ==
    /\ UNCHANGED btVars
    /\ pc = "load"
    /\ LET r == load_symbols(request, api_list, config_file)
       IN  IF r.how = "raise"
           THEN /\ pc' = "crashed" /\ error' = r.exc /\ symbols' = symbols
           ELSE /\ pc' = "extend" /\ error' = error /\ symbols' = r.value
    /\ UNCHANGED <<sourceVars, selected_symbol, pip_precision, inputVars, defaultVars,
                   sl_pips, tp_pips, overrideVars, finalVars>>

\* lines 69-72: symbols.extend([...])
ExtendSymbols ==
    /\ UNCHANGED btVars
    /\ pc = "extend"
    /\ IF symbols.none
       THEN /\ pc' = "crashed" /\ error' = "AttributeError" /\ symbols' = symbols
       ELSE /\ pc' = "select" /\ error' = error
            /\ symbols' = SomeList(symbols.list \o ExtraSymbols)
    /\ UNCHANGED <<sourceVars, selected_symbol, pip_precision, inputVars, defaultVars,
                   sl_pips, tp_pips, overrideVars, finalVars>>

\* lines 73-76
SelectSymbol ==
    /\ UNCHANGED btVars
    /\ pc = "select"
    /\ IF selected_symbol \notin SymbolNames(symbols.list)
       THEN /\ pc' = "crashed" /\ error' = "ValueError"
            /\ UNCHANGED <<selected_symbol, pip_precision>>
       ELSE \E s \in SymbolNames(symbols.list) :
                /\ selected_symbol' = s
                /\ pip_precision' = PipPrecisionOf(symbols.list, s)
                /\ pc' = "settings" /\ error' = error
    /\ UNCHANGED <<sourceVars, symbols, inputVars, defaultVars, sl_pips, tp_pips,
                   overrideVars, finalVars>>

\* lines 81-97
TradeSettings ==
    /\ UNCHANGED btVars
    /\ pc = "settings"
    /\ is_buy' \in BOOLEAN
    /\ account_size' \in AccountSizes
    /\ lot_size' \in LotSizes
    /\ risk_percent' \in RiskPercents
    /\ entry_price' \in EntryPrices
    /\ rr_choice' \in RRChoices
    /\ pc' = "levels"
    /\ UNCHANGED <<error, sourceVars, symbols, selected_symbol, pip_precision,
                   defaultVars, sl_pips, tp_pips, overrideVars, finalVars>>

\* lines 100-104
DefaultLevels ==
    /\ UNCHANGED btVars
    /\ pc = "levels"
    /\ risk_dollar' = RiskDollar(account_size, risk_percent)
    /\ sl_pips' = DefaultSlPips(risk_dollar', lot_size)
    /\ tp_pips' = DefaultTpPips(sl_pips', RRValue(rr_choice))
    /\ sl_price' = DefaultSlPrice(is_buy, entry_price, sl_pips', pip_precision)
    /\ tp_price' = DefaultTpPrice(is_buy, entry_price, tp_pips', pip_precision)
    /\ pc' = "override"
    /\ UNCHANGED <<error, sourceVars, symbols, selected_symbol, pip_precision,
                   inputVars, overrideVars, finalVars>>

\* lines 106-107: the widgets show the defaults; the user may type other prices
Override ==
    /\ UNCHANGED btVars
    /\ pc = "override"
    /\ stop_loss_price' \in {sl_price} \cup {RAdd(entry_price, o) : o \in ManualOffsets}
    /\ take_profit_price' \in {tp_price} \cup {RAdd(entry_price, o) : o \in ManualOffsets}
    /\ pc' = "final"
    /\ UNCHANGED <<error, sourceVars, symbols, selected_symbol, pip_precision,
                   inputVars, defaultVars, sl_pips, tp_pips, finalVars>>

\* lines 110-115
FinalCalculations ==
    /\ UNCHANGED btVars
    /\ pc = "final"
    /\ IF IsZero(pip_precision)
       THEN /\ pc' = "crashed" /\ error' = "ZeroDivisionError"
            /\ UNCHANGED <<sl_pips, tp_pips, finalVars>>
       ELSE /\ sl_pips' = FinalSlPips(entry_price, stop_loss_price, pip_precision)
            /\ tp_pips' = FinalTpPips(entry_price, take_profit_price, pip_precision)
            /\ risk_amount' = Amount(sl_pips', lot_size)
            /\ reward_amount' = Amount(tp_pips', lot_size)
            /\ rr_ratio' = RRRatio(reward_amount', risk_amount')
            /\ suggested_lot_size' = SuggestedLotSize(account_size, risk_percent, sl_pips')
            /\ pc' = "summary" /\ error' = error
    /\ UNCHANGED <<sourceVars, symbols, selected_symbol, pip_precision, inputVars,
                   defaultVars, overrideVars>>


---------------------------------------------------------------------------
\* The backtest button is not pressed during the dashboard run, and the
\* dashboard holds its session defaults during a backtest.
BtIdle ==
    /\ bpc = "idle" /\ raw = <<>> /\ session_filter = "All" /\ df = <<>>
    /\ i = 0 /\ trades = <<>> /\ balance = 0 /\ trig = <<>>

DashIdle ==
    /\ DashInit
    /\ request = [raises |-> FALSE, status_code |-> 200, json_raises |-> FALSE]
    /\ api_list = <<Sym("BTCUSD", R(1, 100)), Sym("EURUSD", R(1, 10000))>>
    /\ config_file = [exists |-> FALSE, list |-> <<>>]

Init == DashInit /\ BtIdle
Next ==
    \/ LoadSymbols \/ ExtendSymbols \/ SelectSymbol \/ TradeSettings
    \/ DefaultLevels \/ Override \/ FinalCalculations
Spec == Init /\ [][Next]_vars

InitBacktest == DashIdle /\ BtInit
NextBacktest == Download \/ Filter \/ Chart \/ LoopStep \/ Report
SpecBacktest == InitBacktest /\ [][NextBacktest]_vars

---------------------------------------------------------------------------
(* Properties of the backtest (checked under SpecBacktest).                *)

Scanning == bpc \in {"loop", "results", "no_trades"}

\* The row of df stamped dt
RowAt(dt) == CHOOSE k \in 1..Len(df) : df[k].Datetime = dt

RECURSIVE SumResults(_, _)
SumResults(ts, k) == IF k = 0 THEN 0 ELSE ts[k].result + SumResults(ts, k - 1)

\* C1: every recorded trade enters at the signal bar's close and resolves its
\* exit from that bar's high and low: tp reached gives exit tp and +1500, else
\* sl reached gives exit sl and -1000, else exit at the close and 0.
C1_ExitFromHighLow ==
    Scanning =>
        \A k \in 1..Len(trades) :
            LET bar == df[RowAt(trig[k])]
                tp == bar.Close + 30
                sl == bar.Close - 20
            IN  /\ trades[k].entry = bar.Close
                /\ IF bar.High >= tp
                   THEN trades[k].exit = tp /\ trades[k].result = 1500
                   ELSE IF bar.Low <= sl
                   THEN trades[k].exit = sl /\ trades[k].result = -1000
                   ELSE trades[k].exit = bar.Close /\ trades[k].result = 0

\* What the code records instead: every trade exits at tp with +1500.
C1_CodeAlwaysWins ==
    Scanning =>
        \A k \in 1..Len(trades) :
            /\ trades[k].result = 1500
            /\ trades[k].exit = trades[k].entry + 30

\* 0-based indices already scanned whose pair (i-1, i) is an upward cross
CrossIndices ==
    { j \in 1..(Len(df) - 1) :
        /\ j < i
        /\ 21 * df[j].Close < df[j].MA21.num
        /\ 21 * df[j + 1].Close > df[j + 1].MA21.num }

\* C2: after the warm-up rows are removed, exactly the indices i >= 1 with
\* close[i-1] < MA21[i-1] and close[i] > MA21[i] record a trade, one each, and
\* the trades are in the order of their triggering bars.
C2_OneTradePerUpwardCross ==
    Scanning =>
        /\ \A k \in 1..Len(df) : ~df[k].MA21.nan /\ df[k].MA21.den = 21
        /\ Len(trades) = Cardinality(CrossIndices)
        /\ Len(trig) = Len(trades)
        /\ { trig[k] : k \in 1..Len(trig) } = { df[j + 1].Datetime : j \in CrossIndices }
        /\ \A k \in 1..(Len(trig) - 1) : trig[k] < trig[k + 1]
        /\ \A k \in 1..Len(trades) : trades[k].entry = df[RowAt(trig[k])].Close

\* Two trades with a downward cross (no trade) between them
C2_Witness ==
    /\ bpc = "results"
    /\ Len(trades) = 2
    /\ \E j \in 1..(Len(df) - 1) :
          21 * df[j].Close > df[j].MA21.num /\ 21 * df[j + 1].Close < df[j + 1].MA21.num

\* C3: the balance starts at 100000; the balance stored in trade k is 100000
\* plus the profits of trades 1..k, and the running balance is 100000 plus the
\* profits of all recorded trades (so it moves only when a trade is recorded).
C3_BalanceConservation ==
    Scanning =>
        /\ balance = 100000 + SumResults(trades, Len(trades))
        /\ \A k \in 1..Len(trades) : trades[k].balance = 100000 + SumResults(trades, k)

C3_Witness == bpc = "results" /\ Len(trades) = 2 /\ i = Len(df)

InWindow(h, choice) ==
    IF choice = "London" THEN 7 <= h /\ h <= 16
    ELSE IF choice = "New York" THEN 13 <= h /\ h <= 21
    ELSE TRUE

\* Positions of raw whose hour of day is inside the selected window
KeptPositions == { k \in 1..Len(raw) : InWindow(raw[k].Datetime % 24, session_filter) }

\* C4: the session filter keeps exactly the bars with hour in [7,16] (London),
\* [13,21] (New York) or all bars (All), in their original order, and it runs
\* before the moving average and the scan, so every bar that triggers a trade
\* and the bar it is compared with have an hour inside the window.
C4_SessionFilter ==
    /\ bpc = "chart" =>
          /\ Len(df) = Cardinality(KeptPositions)
          /\ { df[k].Datetime : k \in 1..Len(df) } = { raw[k].Datetime : k \in KeptPositions }
          /\ \A k \in 1..(Len(df) - 1) : df[k].Datetime < df[k + 1].Datetime
    /\ Scanning =>
          /\ \A k \in 1..Len(df) : InWindow(df[k].Hour, session_filter)
          /\ \A k \in 1..Len(trig) :
                /\ InWindow(trig[k] % 24, session_filter)
                /\ RowAt(trig[k]) > 1
                /\ InWindow(df[RowAt(trig[k]) - 1].Datetime % 24, session_filter)

C4_Witness ==
    /\ bpc = "results"
    /\ session_filter = "London"
    /\ \E k \in 1..Len(raw) :
          /\ ~InWindow(raw[k].Datetime % 24, "London")
          /\ df[RowAt(trig[1]) - 1].Datetime < raw[k].Datetime
          /\ raw[k].Datetime < trig[1]

\* The session-filtered bar sequence
Filtered == FilterSessions(WithHour(raw), session_filter)

\* C10: the 21-period average is taken over the session-filtered sequence and
\* its first 20 bars are dropped before the scan: the scanned rows are the
\* filtered bars from the 21st on, so none of the first 20 triggers a trade or
\* is the previous bar of a pair; fewer than 22 filtered bars give no trade,
\* and the run ends without an error.
C10_WarmUpDropped ==
    /\ Scanning =>
          /\ Len(df) = (IF Len(Filtered) > 20 THEN Len(Filtered) - 20 ELSE 0)
          /\ \A k \in 1..Len(df) :
                /\ df[k].Datetime = Filtered[k + 20].Datetime
                /\ df[k].MA21 = [nan |-> FALSE, num |-> SumClose(Filtered, k, k + 20), den |-> 21]
          /\ \A k \in 1..Len(trig) :
                \A m \in 1..Len(Filtered) :
                    Filtered[m].Datetime = trig[k] => m >= 22
    /\ Len(Filtered) < 22 => trades = <<>> /\ bpc # "results"

C10_Witness ==
    /\ bpc = "results"
    /\ session_filter = "New York"
    /\ Len(Filtered) < Len(raw)
    /\ Len(df) = Len(Filtered) - 20
    /\ trig[1] = Filtered[22].Datetime

---------------------------------------------------------------------------
(* Properties of the dashboard run (checked under Spec).                   *)

Assigned(x) == x[2] # 0
Positive(x) == x[1] > 0
Ten == R(10, 1)
Hundred == R(100, 1)

\* C5: an evaluation with pip_precision <= 0 (lot_size <= 0 cannot be entered:
\* the widget's min_value is 0.01) ends with an explicit InvalidParameter error
\* and no result, instead of dividing by zero.
C5_InvalidParameter ==
    (pc \in {"summary", "crashed"} /\ Assigned(pip_precision) /\ ~Positive(pip_precision))
        => pc = "crashed" /\ error = "InvalidParameter"

\* C6: the reported pips and amounts are computed from the prices actually
\* supplied, by absolute value, whatever the direction and the defaults were.
C6_ManualOverrideWins ==
    pc = "summary" =>
        /\ sl_pips = RDiv(RAbs(RSub(entry_price, stop_loss_price)), pip_precision)
        /\ tp_pips = RDiv(RAbs(RSub(take_profit_price, entry_price)), pip_precision)
        /\ risk_amount = RMul(RMul(sl_pips, lot_size), Ten)
        /\ reward_amount = RMul(RMul(tp_pips, lot_size), Ten)
        /\ rr_ratio = (IF risk_amount[1] = 0 THEN Zero ELSE RDiv(reward_amount, risk_amount))

\* A Sell whose manual stop lies below the entry and differs from the default
C6_Witness ==
    /\ pc = "summary"
    /\ ~is_buy
    /\ stop_loss_price # sl_price
    /\ RLt(stop_loss_price, entry_price)
    /\ take_profit_price # tp_price
    /\ Positive(rr_ratio)

Multiple == IF rr_choice = "1:1" THEN 1 ELSE IF rr_choice = "1:2" THEN 2 ELSE 3

\* C7: default levels.  risk_dollar = account*risk/100, sl_pips =
\* risk_dollar/(lot*10), tp_pips = sl_pips*multiple; Buy puts the stop below and
\* the target above the entry, Sell mirrors it; the target distance is the
\* multiple of the stop distance; and the worked example gives 100, 100, 200,
\* 1.1300, 1.1600.
C7_DefaultLevels ==
    (pc = "override" /\ Positive(pip_precision)) =>
        /\ risk_dollar = RDiv(RMul(account_size, risk_percent), Hundred)
        /\ sl_pips = RDiv(risk_dollar, RMul(lot_size, Ten))
        /\ tp_pips = RMul(sl_pips, R(Multiple, 1))
        /\ is_buy => /\ sl_price = RSub(entry_price, RMul(sl_pips, pip_precision))
                     /\ tp_price = RAdd(entry_price, RMul(tp_pips, pip_precision))
                     /\ RLt(sl_price, entry_price) /\ RLt(entry_price, tp_price)
        /\ ~is_buy => /\ sl_price = RAdd(entry_price, RMul(sl_pips, pip_precision))
                      /\ tp_price = RSub(entry_price, RMul(tp_pips, pip_precision))
                      /\ RLt(entry_price, sl_price) /\ RLt(tp_price, entry_price)
        /\ RAbs(RSub(tp_price, entry_price))
              = RMul(R(Multiple, 1), RAbs(RSub(sl_price, entry_price)))
        /\ ( /\ risk_percent = R(1, 1) /\ account_size = R(10000, 1)
             /\ lot_size = R(1, 10) /\ pip_precision = R(1, 10000)
             /\ entry_price = R(114, 100) /\ is_buy /\ rr_choice = "1:2" )
           => /\ risk_dollar = R(100, 1) /\ sl_pips = R(100, 1) /\ tp_pips = R(200, 1)
              /\ sl_price = R(113, 100) /\ tp_price = R(116, 100)

C7_Witness ==
    /\ pc = "override"
    /\ risk_percent = R(1, 1) /\ account_size = R(10000, 1)
    /\ lot_size = R(1, 10) /\ pip_precision = R(1, 10000)
    /\ entry_price = R(114, 100) /\ is_buy /\ rr_choice = "1:2"
    /\ sl_price = R(113, 100) /\ tp_price = R(116, 100)

\* C8: whenever the supplied stop equals the entry, the evaluation completes
\* with risk_reward_ratio = 0 and suggested_lot_size = 0; and every completed
\* evaluation has risk_reward_ratio >= 0.
C8_ZeroStopDistance ==
    /\ (pc \in {"summary", "crashed"} /\ Assigned(stop_loss_price)
            /\ stop_loss_price = entry_price)
          => pc = "summary" /\ rr_ratio = Zero /\ suggested_lot_size = Zero
    /\ pc = "summary" => rr_ratio[1] >= 0

\* The part of C8 the code does satisfy: with a non-zero pip precision
C8_ZeroStopWhenPipNonZero ==
    (pc \in {"summary", "crashed"} /\ Assigned(stop_loss_price)
        /\ stop_loss_price = entry_price /\ ~IsZero(pip_precision))
      => pc = "summary" /\ rr_ratio = Zero /\ suggested_lot_size = Zero

\* C9: load_symbols always hands the caller a list: the API's list on status
\* 200, the local file's list in every other outcome of the request.
C9_AlwaysAList ==
    pc = "extend" =>
        /\ ~symbols.none
        /\ symbols.list = (IF ~request.raises /\ request.status_code = 200
                                /\ ~request.json_raises
                           THEN api_list ELSE config_file.list)

=============================================================================
